---- MODULE Spec2Model ----
(***************************************************************************)
(* TypeScrape: the scraper lifecycle (GenreScraper, ArtistScraper) with    *)
(* its dependency resolution and lookup-first persistence, and the         *)
(* Aggregator cache pipeline.                                              *)
(*                                                                         *)
(* Spec     : scrapers driven one scrape() at a time against the store.    *)
(* AggSpec  : aggregate() calls overlapping at their awaits, on one cache. *)
(* ConcSpec : scrape() runs of several scrapers in flight at once.         *)
(***************************************************************************)
EXTENDS Integers, Sequences, FiniteSets, TLC

VARIABLES
    genreTable,   \* rows of GenreEntity, in insertion order
    artistTable,  \* rows of ArtistEntity, in insertion order
    scrapers,     \* ArtistScraper instances: fields, lifecycle state, position
    calls,        \* number of root scrape() invocations made by the driver
    cache,        \* the key/value cache: key -> Aggregation or Null
    entityData,   \* what the store holds for each aggregated entity
    hist,         \* the aggregate() calls that returned, updates and evictions, newest last
    pending       \* the aggregate() calls in flight

scraperVars == <<genreTable, artistTable, scrapers, calls>>
aggVars == <<cache, entityData, hist, pending>>
vars == <<genreTable, artistTable, scrapers, calls, cache, entityData, hist, pending>>

----------------------------------------------------------------------------
(* Bounds *)

\* root scrape() invocations the driver makes in one behaviour
MaxRuns == 2
\* genre links inside one Genres block
MaxGenres == 2

Artists == {"a1", "a2"}
Urls == {"/artist/x", "/artist/y"}
GenreNames == {"Rock", "Jazz"}

----------------------------------------------------------------------------
(* JavaScript's absent values *)

Undefined == [undefined |-> TRUE]
Null == [null |-> TRUE]
Some(v) == [value |-> v]
IsNullish(x) == x = Undefined \/ x = Null

----------------------------------------------------------------------------
(* Lifecycle states of a Scraper, in their order *)

Created == 1
Resolved == 2
Fetched == 3
Extracted == 4
DependenciesResolved == 5
Persisted == 6
Complete == 7

----------------------------------------------------------------------------
(* The fetched document *)

SeqsUpTo(S, n) == UNION {[1..k -> S] : k \in 0..n}

GenreLists == SeqsUpTo(GenreNames, MaxGenres)

\* one element of '.artist_info > div'
Hdr(h) == [className |-> "info_hdr", innerHTML |-> h, links |-> <<>>]
Content(text, links) == [className |-> "info_content", innerHTML |-> text, links |-> links]

GenresBlock(g) == <<Hdr("Genres"), Content("", g)>>
MembersBlock == <<Hdr("Members"), Content("Ann, Bob", <<>>)>>
StatusBlock(h) == <<Hdr(h), Content("1999", <<>>)>>

InfoBlockLists ==
    {<<>>, MembersBlock, <<Content("stray", <<"Rock">>)>>}
    \cup {GenresBlock(g) : g \in GenreLists}
    \cup {MembersBlock \o StatusBlock("Disbanded") \o GenresBlock(<<"Rock", "Jazz">>)}
    \cup {StatusBlock(h) \o GenresBlock(<<"Jazz">>) : h \in {"Born", "Died", "Formed"}}
    \cup {GenresBlock(<<"Rock">>) \o GenresBlock(<<"Jazz">>)}

FullInfoBlocks == MembersBlock \o StatusBlock("Disbanded") \o GenresBlock(<<"Rock", "Jazz">>)

Page(name, blocks, disco, lists, shows) ==
    [name |-> name, infoBlocks |-> blocks, disco |-> disco, lists |-> lists, shows |-> shows]

\* disco, lists: Null (element missing) or the number the element's text holds;
\* shows: Null, or the text after the bracket of 'Show past shows [28]'
Pages ==
    {Page(Some("Belle &amp; Sebastian"), b, Some(12), Some(20), Some("28")) : b \in InfoBlockLists}
    \cup {Page(Some("Belle &amp; Sebastian"), GenresBlock(<<>>), n[1], n[2], n[3]) :
            n \in {<<Some(12), Some(20), Some("many")>>, <<Null, Null, Null>>}}
    \cup {Page(Null, FullInfoBlocks, Some(12), Some(20), Some("28"))}

----------------------------------------------------------------------------
(* The entity store (typeorm's getManager) *)

Min(S) == CHOOSE x \in S : \A y \in S : x <= y

\* findOne(GenreEntity, { name }): the first matching row, or undefined
FindGenreByName(table, name) ==
    LET hits == {i \in DOMAIN table : table[i].name = name}
    IN  IF hits = {} THEN Undefined ELSE table[Min(hits)]

\* findOne(ArtistEntity, { urlRYM }): the first matching row, or undefined
FindArtistByUrl(table, url) ==
    LET hits == {i \in DOMAIN table : table[i].urlRYM = url}
    IN  IF hits = {} THEN Undefined ELSE table[Min(hits)]

\* save() of an entity that has no id: a new row with the next generated id
SaveRow(table, entity) == Append(table, [entity EXCEPT !.id = Len(table) + 1])

\* saveToDB forgets to keep the id of the row it saved
SetDatabaseID_Skip(s, entity) == s

\* this.databaseID = entity.id, with the entity save() returned
SetDatabaseID(s, entity) == [s EXCEPT !.databaseID = Some(entity.id)]

----------------------------------------------------------------------------
(* GenreScraper *)

NewGenreScraper(name) ==
    [name |-> name, databaseID |-> Undefined, dataReadFromDB |-> FALSE,
     results |-> <<>>, state |-> Created, pc |-> "idle", failed |-> FALSE, error |-> "none"]

\* the lookup by name finds nothing, whatever the store holds
GenreGetEntity_NeverFinds(table, g) == Undefined

GenreGetEntity(table, g) == FindGenreByName(table, g.name)

NewGenreEntity(g) == [id |-> 0, name |-> g.name]

\* the save is a find-or-create: no row is added when the name is already stored
GenreSaveToDB_FindOrCreate(table, g) ==
    IF FindGenreByName(table, g.name) # Undefined THEN table
    ELSE SaveRow(table, NewGenreEntity(g))

GenreSaveToDB(table, g) == SaveRow(table, NewGenreEntity(g))

\* the scrapers are collected with unshift instead of push
createScrapers_Reversed(genres) ==
    [i \in 1..Len(genres) |-> NewGenreScraper(genres[Len(genres) + 1 - i])]

createScrapers(genres) == [i \in 1..Len(genres) |-> NewGenreScraper(genres[i])]

----------------------------------------------------------------------------
(* ArtistScraper: construction and extraction *)

NewArtistScraper(url) ==
    [url |-> url, databaseID |-> Undefined, dataReadFromDB |-> FALSE, results |-> <<>>,
     scrapedHtmlElement |-> Undefined, name |-> Undefined,
     active |-> TRUE, soloPerformer |-> FALSE, memberCount |-> Undefined,
     genreScrapersRYM |-> Undefined, listCountRYM |-> Undefined,
     discographyCountRYM |-> Undefined, showCountRYM |-> Undefined,
     state |-> Created, pc |-> "idle", dep |-> 0, genreEntities |-> <<>>,
     failed |-> FALSE, error |-> "none"]

\* the lookup asks for a key no row carries
ArtistGetEntity_WrongKey(table, s) == FindArtistByUrl(table, "")

ArtistGetEntity(table, s) == FindArtistByUrl(table, s.url)

\* number of names in a comma-separated member string, defaultVal when there is none
getMemberCountFromRawString(members, defaultVal) ==
    CASE members = "Ann, Bob" -> 2
      [] members = "Ann" -> 1
      [] OTHER -> defaultVal

\* the number a string of digits denotes, defaultVal when it is not a number
stringToNum(str, defaultVal) ==
    CASE str = "28" -> 28
      [] str = "0" -> 0
      [] OTHER -> defaultVal

\* innerHTML of the element at a 0-based index of a list, defaultVal out of range
extractInnerHtmlOfElementFromList(list, index, defaultVal) ==
    IF index + 1 \in DOMAIN list THEN Some(list[index + 1].innerHTML) ELSE defaultVal

\* the body of the forEach callback, for the block at 0-based index i
ExtractInfoBlock(s, infoBlocks, i) ==
    LET block == infoBlocks[i + 1]
        headerBlockText == extractInnerHtmlOfElementFromList(infoBlocks, i - 1, Null)
    IN  IF block.className # "info_content" THEN s
        ELSE CASE headerBlockText = Some("Members") ->
                    [s EXCEPT !.memberCount = Some(getMemberCountFromRawString(block.innerHTML, 1))]
               [] headerBlockText = Some("Genres") ->
                    [s EXCEPT !.genreScrapersRYM = Some(createScrapers(block.links))]
               [] headerBlockText = Some("Disbanded") ->
                    [s EXCEPT !.active = FALSE]
               [] headerBlockText = Some("Born") ->
                    [s EXCEPT !.soloPerformer = TRUE]
               [] headerBlockText = Some("Died") ->
                    [s EXCEPT !.soloPerformer = TRUE, !.active = FALSE]
               [] OTHER -> s

RECURSIVE ForEachInfoBlock(_, _, _)
ForEachInfoBlock(s, infoBlocks, i) ==
    IF i >= Len(infoBlocks) THEN s
    ELSE ForEachInfoBlock(ExtractInfoBlock(s, infoBlocks, i), infoBlocks, i + 1)

extractMainInfoBlocks(s) == ForEachInfoBlock(s, s.scrapedHtmlElement.infoBlocks, 0)

\* HTML entities of a text replaced by the characters they stand for
decodeHtmlText(raw) ==
    CASE raw = "Belle &amp; Sebastian" -> "Belle & Sebastian"
      [] OTHER -> raw

extractArtistName(s) == [s EXCEPT !.name = Some(decodeHtmlText(s.scrapedHtmlElement.name.value))]

extractDiscographyCount(s) ==
    LET el == s.scrapedHtmlElement.disco
    IN  [s EXCEPT !.discographyCountRYM = IF el = Null THEN Some(0) ELSE el]

\* what extractNumberFromHeaderNumberPair gives for a missing element when the
\* caller passes no default
HelperDefaults == {Some(0), Null, Undefined}

\* no default is passed: a missing element leaves the helper's own default
extractListCount(s, helperDefault) ==
    LET el == s.scrapedHtmlElement.lists
    IN  [s EXCEPT !.listCountRYM = IF el = Null THEN helperDefault ELSE el]

extractPastShowCount(s) ==
    LET el == s.scrapedHtmlElement.shows
    IN  [s EXCEPT !.showCountRYM =
            IF el = Null THEN Some(0) ELSE Some(stringToNum(el.value, 0))]

\* the strict extraction of the artist name throws when the header is missing
ExtractInfoThrows(s) == s.scrapedHtmlElement.name = Null

extractInfo(s, helperDefault) ==
    extractPastShowCount(extractListCount(extractDiscographyCount(
        extractMainInfoBlocks(extractArtistName(s))), helperDefault))

----------------------------------------------------------------------------
(* scrape(): the lifecycle every Scraper runs *)

FoundRecord(key) == [found |-> TRUE, key |-> key]

\* lookup hit: the run short-circuits to Complete
ShortCircuit(s, found, key) ==
    [s EXCEPT !.dataReadFromDB = TRUE, !.databaseID = Some(found.id),
              !.results = Append(@, FoundRecord(key)),
              !.state = Complete]

\* an error leaves scrape(): the run ends where it stands
Throw(s, error) == [s EXCEPT !.pc = "idle", !.failed = TRUE, !.error = error]

\* a new scrape() call: the previous run's error is forgotten
Begin(s) == [s EXCEPT !.failed = FALSE, !.error = "none"]

Advance(s, state, pc) == [s EXCEPT !.state = state, !.pc = pc]

NoneRunning == \A a \in Artists : scrapers[a].pc = "idle"

Children(s) == s.genreScrapersRYM.value

\* the driver calls scrape() on a root scraper: the lookup comes first
ScrapeLookup(a) ==
    LET s == scrapers[a]
        found == ArtistGetEntity(artistTable, s)
    IN  /\ NoneRunning
        /\ calls < MaxRuns
        /\ calls' = calls + 1
        /\ scrapers' = [scrapers EXCEPT ![a] =
                IF found # Undefined
                THEN ShortCircuit(Begin(s), found, s.url)
                ELSE Advance(Begin(s), Resolved, "fetch")]
        /\ UNCHANGED <<genreTable, artistTable, aggVars>>

\* the driver calls scrape() on a root scraper without awaiting the runs it
\* started before: the call only needs this scraper not to be in a run itself
ScrapeLookupConcurrent(a) ==
    LET s == scrapers[a]
        found == ArtistGetEntity(artistTable, s)
    IN  /\ s.pc = "idle"
        /\ calls < MaxRuns
        /\ calls' = calls + 1
        /\ scrapers' = [scrapers EXCEPT ![a] =
                IF found # Undefined
                THEN ShortCircuit(Begin(s), found, s.url)
                ELSE Advance(Begin(s), Resolved, "fetch")]
        /\ UNCHANGED <<genreTable, artistTable, aggVars>>

\* ArtistScraper.requestScrape: the page arrives
RequestScrape(a) ==
    /\ scrapers[a].pc = "fetch"
    /\ \E page \in Pages :
            scrapers' = [scrapers EXCEPT ![a] =
                Advance([scrapers[a] EXCEPT !.scrapedHtmlElement = page], Fetched, "extract")]
    /\ UNCHANGED <<genreTable, artistTable, calls, aggVars>>

\* the pages of artists that list at least one genre, complete in every other part
PagesWithGenres ==
    {Page(Some("Belle &amp; Sebastian"), GenresBlock(g), Some(12), Some(20), Some("28")) :
        g \in GenreLists \ {<<>>}}

\* ArtistScraper.requestScrape: the page of an artist with genres arrives
RequestScrapeWithGenres(a) ==
    /\ scrapers[a].pc = "fetch"
    /\ \E page \in PagesWithGenres :
            scrapers' = [scrapers EXCEPT ![a] =
                Advance([scrapers[a] EXCEPT !.scrapedHtmlElement = page], Fetched, "extract")]
    /\ UNCHANGED <<genreTable, artistTable, calls, aggVars>>

\* ArtistScraper.requestScrape: the fetch fails
RequestScrapeFails(a) ==
    /\ scrapers[a].pc = "fetch"
    /\ scrapers' = [scrapers EXCEPT ![a] = Throw(scrapers[a], "FetchError")]
    /\ UNCHANGED <<genreTable, artistTable, calls, aggVars>>

\* the helper's own default is not in the source: where the page calls for it,
\* every candidate is tried
ExtractInfo(a) ==
    LET s == scrapers[a]
        defaults == IF ~ExtractInfoThrows(s) /\ s.scrapedHtmlElement.lists = Null
                    THEN HelperDefaults ELSE {Undefined}
    IN  /\ s.pc = "extract"
        /\ \E helperDefault \in defaults :
                scrapers' = [scrapers EXCEPT ![a] =
                    IF ExtractInfoThrows(s) THEN Throw(s, "ExtractionError")
                    ELSE [Advance(extractInfo(s, helperDefault), Extracted, "deps")
                            EXCEPT !.dep = 1]]
        /\ UNCHANGED <<genreTable, artistTable, calls, aggVars>>

----------------------------------------------------------------------------
(* ArtistScraper.scrapeDependencies: the loop over genreScrapersRYM *)

InLoop(s) == s.pc = "deps" /\ s.genreScrapersRYM # Undefined /\ s.dep <= Len(Children(s))

SetChild(s, g) == [s EXCEPT !.genreScrapersRYM.value[s.dep] = g]

\* iterating an undefined genreScrapersRYM is a TypeError
ScrapeDependenciesTypeError(a) ==
    LET s == scrapers[a]
    IN  /\ s.pc = "deps"
        /\ s.genreScrapersRYM = Undefined
        /\ scrapers' = [scrapers EXCEPT ![a] = Throw(s, "TypeError")]
        /\ UNCHANGED <<genreTable, artistTable, calls, aggVars>>

\* the loop calls the next child's scrape(): its lookup comes first
GenreScrapeLookup(a) ==
    LET s == scrapers[a]
        g == Children(s)[s.dep]
        found == GenreGetEntity(genreTable, g)
    IN  /\ InLoop(s)
        /\ g.pc = "idle"
        /\ scrapers' = [scrapers EXCEPT ![a] = SetChild(s,
                IF found # Undefined
                THEN [ShortCircuit(Begin(g), found, g.name) EXCEPT !.pc = "done"]
                ELSE Advance(Begin(g), Resolved, "fetch"))]
        /\ UNCHANGED <<genreTable, artistTable, calls, aggVars>>

\* GenreScraper.requestScrape resolves at once
GenreRequestScrape(a) ==
    LET s == scrapers[a]
    IN  /\ InLoop(s)
        /\ Children(s)[s.dep].pc = "fetch"
        /\ scrapers' = [scrapers EXCEPT ![a] =
                SetChild(s, Advance(Children(s)[s.dep], Fetched, "extract"))]
        /\ UNCHANGED <<genreTable, artistTable, calls, aggVars>>

\* GenreScraper.extractInfo is empty
GenreExtractInfo(a) ==
    LET s == scrapers[a]
    IN  /\ InLoop(s)
        /\ Children(s)[s.dep].pc = "extract"
        /\ scrapers' = [scrapers EXCEPT ![a] =
                SetChild(s, Advance(Children(s)[s.dep], Extracted, "deps"))]
        /\ UNCHANGED <<genreTable, artistTable, calls, aggVars>>

\* GenreScraper.scrapeDependencies resolves at once
GenreScrapeDependencies(a) ==
    LET s == scrapers[a]
    IN  /\ InLoop(s)
        /\ Children(s)[s.dep].pc = "deps"
        /\ scrapers' = [scrapers EXCEPT ![a] =
                SetChild(s, Advance(Children(s)[s.dep], DependenciesResolved, "save"))]
        /\ UNCHANGED <<genreTable, artistTable, calls, aggVars>>

\* GenreScraper.saveToDB: a new row, whose id becomes databaseID
GenreSave(a) ==
    LET s == scrapers[a]
        g == Children(s)[s.dep]
        table == GenreSaveToDB(genreTable, g)
    IN  /\ InLoop(s)
        /\ g.pc = "save"
        /\ genreTable' = table
        /\ scrapers' = [scrapers EXCEPT ![a] =
                SetChild(s, Advance(SetDatabaseID(g, table[Len(table)]),
                                    Persisted, "finish"))]
        /\ UNCHANGED <<artistTable, calls, aggVars>>

\* GenreScraper.saveToDB: the store write fails
GenreSaveFails(a) ==
    LET s == scrapers[a]
    IN  /\ InLoop(s)
        /\ Children(s)[s.dep].pc = "save"
        /\ scrapers' = [scrapers EXCEPT ![a] =
                SetChild(s, [Throw(Children(s)[s.dep], "PersistenceError") EXCEPT !.pc = "thrown"])]
        /\ UNCHANGED <<genreTable, artistTable, calls, aggVars>>

GenreFinish(a) ==
    LET s == scrapers[a]
    IN  /\ InLoop(s)
        /\ Children(s)[s.dep].pc = "finish"
        /\ scrapers' = [scrapers EXCEPT ![a] =
                SetChild(s, Advance(Children(s)[s.dep], Complete, "done"))]
        /\ UNCHANGED <<genreTable, artistTable, calls, aggVars>>

\* the child's records are not taken over
ResultsAfterConcat_Dropped(results, other) == results

\* results.concat(other): the other scraper's records are appended to results
ResultsAfterConcat(results, other) == results \o other

\* the awaited child scrape() returned: the loop body ends, the loop moves on
ScrapeDependenciesNext(a) ==
    LET s == scrapers[a]
        g == Children(s)[s.dep]
    IN  /\ InLoop(s)
        /\ g.pc = "done"
        /\ scrapers' = [scrapers EXCEPT ![a] =
                [SetChild(s, [g EXCEPT !.pc = "idle"]) EXCEPT
                    !.results = ResultsAfterConcat(s.results, g.results),
                    !.dep = s.dep + 1]]
        /\ UNCHANGED <<genreTable, artistTable, calls, aggVars>>

\* the loop catches the child's error and goes on with the next child
ScrapeDependenciesRethrow_Swallow(a) ==
    LET s == scrapers[a]
        g == Children(s)[s.dep]
    IN  /\ InLoop(s)
        /\ g.pc = "thrown"
        /\ scrapers' = [scrapers EXCEPT ![a] =
                [SetChild(s, [g EXCEPT !.pc = "idle"]) EXCEPT !.dep = s.dep + 1]]
        /\ UNCHANGED <<genreTable, artistTable, calls, aggVars>>

\* the awaited child scrape() threw: the error leaves the loop and the parent's scrape()
ScrapeDependenciesRethrow(a) ==
    LET s == scrapers[a]
        g == Children(s)[s.dep]
    IN  /\ InLoop(s)
        /\ g.pc = "thrown"
        /\ scrapers' = [scrapers EXCEPT ![a] = Throw(SetChild(s, [g EXCEPT !.pc = "idle"]), g.error)]
        /\ UNCHANGED <<genreTable, artistTable, calls, aggVars>>

\* the loop has run every child
ScrapeDependenciesEnd(a) ==
    LET s == scrapers[a]
    IN  /\ s.pc = "deps"
        /\ s.genreScrapersRYM # Undefined
        /\ s.dep > Len(Children(s))
        /\ scrapers' = [scrapers EXCEPT ![a] = Advance(s, DependenciesResolved, "save")]
        /\ UNCHANGED <<genreTable, artistTable, calls, aggVars>>

----------------------------------------------------------------------------
(* ArtistScraper.saveToDB *)

\* the looked-up entity is put in front of the list instead of behind it
PushGenreEntity_Unshift(genreEntities, genreEntity) == <<genreEntity>> \o genreEntities

\* genreEntities.push(genreEntity)
PushGenreEntity(genreEntities, genreEntity) == Append(genreEntities, genreEntity)

NewArtistEntity(s, genreEntities) ==
    [id |-> 0, genres |-> genreEntities, name |-> s.name, active |-> s.active,
     memberCount |-> s.memberCount, soloPerformer |-> s.soloPerformer, urlRYM |-> s.url,
     listCountRYM |-> s.listCountRYM, discographyCountRYM |-> s.discographyCountRYM,
     showCountRYM |-> s.showCountRYM]

ArtistSaveToDB(table, s, genreEntities) == SaveRow(table, NewArtistEntity(s, genreEntities))

\* one pass of the loop of saveToDB: the awaited getEntity() of the next genre
\* scraper has resolved with what the store holds now
SaveToDBGetEntity(a) ==
    LET s == scrapers[a]
    IN  /\ s.pc = "save"
        /\ Len(s.genreEntities) < Len(Children(s))
        /\ scrapers' = [scrapers EXCEPT ![a] =
                [s EXCEPT !.genreEntities =
                    PushGenreEntity(s.genreEntities,
                        GenreGetEntity(genreTable, Children(s)[Len(s.genreEntities) + 1]))]]
        /\ UNCHANGED <<genreTable, artistTable, calls, aggVars>>

\* saveToDB as scrape() calls it, after its loop: the awaited save has resolved
SaveToDB(a) ==
    LET s == scrapers[a]
        table == ArtistSaveToDB(artistTable, s, s.genreEntities)
    IN  /\ s.pc = "save"
        /\ Len(s.genreEntities) = Len(Children(s))
        /\ artistTable' = table
        /\ scrapers' = [scrapers EXCEPT ![a] =
                Advance([SetDatabaseID(s, table[Len(table)]) EXCEPT !.genreEntities = <<>>],
                        Persisted, "finish")]
        /\ UNCHANGED <<genreTable, calls, aggVars>>

\* the store write fails
SaveToDBFails(a) ==
    LET s == scrapers[a]
    IN  /\ s.pc = "save"
        /\ Len(s.genreEntities) = Len(Children(s))
        /\ scrapers' = [scrapers EXCEPT ![a] =
                Throw([s EXCEPT !.genreEntities = <<>>], "PersistenceError")]
        /\ UNCHANGED <<genreTable, artistTable, calls, aggVars>>

ScrapeFinish(a) ==
    /\ scrapers[a].pc = "finish"
    /\ scrapers' = [scrapers EXCEPT ![a] = Advance(scrapers[a], Complete, "idle")]
    /\ UNCHANGED <<genreTable, artistTable, calls, aggVars>>

----------------------------------------------------------------------------
(* Aggregator *)

\* aggregate() calls, entity updates and evictions in one behaviour
MaxOps == 2
\* largest raw magnitude the store holds for an entity
MaxRaw == 2

\* strings are sequences of characters, so that template strings concatenate
StrTrack == <<"t", "r", "a", "c", "k">>
StrArtists == <<"a", "r", "t", "i", "s", "t", "s">>
StrNormalized == <<"n", "o", "r", "m", "a", "l", "i", "z", "e", "d">>
StrUndefined == <<"u", "n", "d", "e", "f", "i", "n", "e", "d">>

AggregationTypes == {StrTrack, StrArtists}

DigitChar(d) == <<"0", "1", "2", "3", "4", "5", "6", "7", "8", "9">>[d + 1]

\* a number as a template string prints it
RECURSIVE NumberToString(_)
NumberToString(n) ==
    IF n < 10 THEN <<DigitChar(n)>> ELSE NumberToString(n \div 10) \o <<DigitChar(n % 10)>>

\* `${x}` of an id
IdToString(id) == IF id = Undefined THEN StrUndefined ELSE NumberToString(id.value)

\* the entity objects an Aggregator is built around: two persisted ones with
\* their generated ids and two not saved yet, whose id is undefined; ref is the
\* object's identity
Entities ==
    {[ref |-> "e1", id |-> Some(1)], [ref |-> "e2", id |-> Some(2)],
     [ref |-> "e3", id |-> Undefined], [ref |-> "e4", id |-> Undefined]}
EntityRefs == {e.ref : e \in Entities}

NewAggregator(entity, type) == [entity |-> entity, aggregationType |-> type]

\* every entity, and none, under one type; one entity under both types
Aggregators ==
    {NewAggregator(e, StrTrack) : e \in Entities \cup {Null}}
    \cup {NewAggregator(e, StrArtists) : e \in {x \in Entities : x.ref = "e1"}}

\* no check for a missing entity: its id prints as undefined
redisKey_NoNullCheck(agg, normalized) ==
    LET id == IF IsNullish(agg.entity) THEN Undefined ELSE agg.entity.id
        keyString == agg.aggregationType \o <<"_">> \o IdToString(id)
    IN  IF normalized THEN Some(keyString \o <<"_">> \o StrNormalized)
        ELSE Some(keyString)

\* the key leaves the normalized flag out
redisKey_NoFlag(agg, normalized) ==
    IF IsNullish(agg.entity) THEN Null
    ELSE Some(agg.aggregationType \o <<"_">> \o IdToString(agg.entity.id))

redisKey(agg, normalized) ==
    IF IsNullish(agg.entity) THEN Null
    ELSE LET keyString == agg.aggregationType \o <<"_">> \o IdToString(agg.entity.id)
         IN  IF normalized THEN Some(keyString \o <<"_">> \o StrNormalized)
             ELSE Some(keyString)

\* the keys the Aggregators can ask the cache for
CacheKeys ==
    {k.value : k \in {redisKey(agg, n) : agg \in Aggregators, n \in BOOLEAN} \ {Null}}

TrackFields == <<"acousticness", "danceability", "duration", "energy", "explicit", "instrumentalness", "liveness", "loudness", "mode", "speechiness", "tempo", "timeSignatureVariation", "valence">>
ArtistsFields == TrackFields \o <<"averagePopularity", "highestPopularity", "lowestPopularity">>

FieldsOfType(type) == IF type = StrTrack THEN TrackFields ELSE ArtistsFields

\* an Aggregation: its properties in insertion order
template(agg, defaultVal) ==
    LET f == FieldsOfType(agg.aggregationType)
    IN  [i \in 1..Len(f) |-> [key |-> f[i], val |-> defaultVal]]

\* every field of the template's shape, loaded from what the store holds for the entity
generateAggregate(agg, data, normalized) ==
    LET raw == IF IsNullish(agg.entity) THEN 0 ELSE data[agg.entity.ref]
    IN  [i \in DOMAIN template(agg, 0) |->
            [template(agg, 0)[i] EXCEPT !.val = IF i % 2 = 1 THEN raw ELSE MaxRaw - raw]]

\* for (const prop in object): the own properties, in insertion order
ForIn(object) == [i \in 1..Len(object) |-> object[i]]

\* the property names are collected with unshift instead of push
fields_Unshift(agg) ==
    LET blankAggregation == template(agg, 1)
        props == ForIn(blankAggregation)
    IN  [i \in DOMAIN props |-> props[Len(props) + 1 - i].key]

fields(agg) ==
    LET blankAggregation == template(agg, 1)
        props == ForIn(blankAggregation)
    IN  [i \in DOMAIN props |-> props[i].key]

\* the loop tests the value instead of the key: a field holding 0 is left out
stripLabels_SkipsZero(aggregation) ==
    LET props == ForIn(aggregation)
    IN  SelectSeq([i \in DOMAIN props |-> props[i].val], LAMBDA v : v # 0)

stripLabels(aggregation) ==
    LET props == ForIn(aggregation)
    IN  [i \in DOMAIN props |-> props[i].val]

csvHeaders(agg) ==
    LET f == fields(agg)
    IN  [i \in DOMAIN f |-> [id |-> f[i], title |-> f[i]]]

\* raw magnitudes mapped onto the bounded range 0..NormScale
NormScale == 10
normalize(agg, aggregation) ==
    [i \in DOMAIN aggregation |->
        [aggregation[i] EXCEPT !.val = (aggregation[i].val * NormScale) \div MaxRaw]]

getObject(c, key) == c[key]
setObject(c, key, value) == [c EXCEPT ![key] = value]

\* aggregate() calls in flight, one slot for every call a behaviour can start
NoCall == [pc |-> "none"]

InFlight == {id \in DOMAIN pending : pending[id].pc # "none"}

\* aggregate() calls, entity updates and evictions begun so far
Started == Len(hist) + Cardinality(InFlight)

\* aggregate(normalized) is entered: the key is computed and, with a key, getObject
\* is awaited; without one generateAggregate is
NewCall(id, agg, normalized, after) ==
    [id |-> id, agg |-> agg, normalized |-> normalized, after |-> after,
     pc |-> IF redisKey(agg, normalized) # Null THEN "getObject" ELSE "generateAggregate",
     before |-> Null, generated |-> Null, result |-> Null,
     cacheReads |-> 0, generateCalls |-> 0, normalizeCalls |-> 0, storeReads |-> 0,
     cacheWrites |-> <<>>]

\* the cached Aggregation is looked up but the call goes on to compute and store
AfterGetObject_NoEarlyReturn(call, c) ==
    LET cachedAggregation == getObject(c, redisKey(call.agg, call.normalized).value)
    IN  [call EXCEPT !.before = cachedAggregation, !.cacheReads = 1,
                     !.pc = "generateAggregate"]

\* getObject has resolved: a cached Aggregation is returned, otherwise
\* generateAggregate is awaited
AfterGetObject(call, c) ==
    LET cachedAggregation == getObject(c, redisKey(call.agg, call.normalized).value)
    IN  IF cachedAggregation # Null
        THEN [call EXCEPT !.before = cachedAggregation, !.cacheReads = 1,
                          !.result = cachedAggregation, !.pc = "return"]
        ELSE [call EXCEPT !.cacheReads = 1, !.pc = "generateAggregate"]

\* the computed Aggregation is returned without being stored in the cache
AfterGenerateAggregate_NoWrite(call, data) ==
    LET generated == generateAggregate(call.agg, data, call.normalized)
        aggregation == IF call.normalized THEN normalize(call.agg, generated) ELSE generated
    IN  [call EXCEPT !.generated = generated, !.result = aggregation,
                     !.generateCalls = 1, !.storeReads = 1,
                     !.normalizeCalls = IF call.normalized THEN 1 ELSE 0,
                     !.pc = "return"]

\* generateAggregate has resolved with what the store held: the Aggregation is
\* normalized on request and, with a key, setObject is awaited
AfterGenerateAggregate(call, data) ==
    LET generated == generateAggregate(call.agg, data, call.normalized)
        aggregation == IF call.normalized THEN normalize(call.agg, generated) ELSE generated
    IN  [call EXCEPT !.generated = generated, !.result = aggregation,
                     !.generateCalls = 1, !.storeReads = 1,
                     !.normalizeCalls = IF call.normalized THEN 1 ELSE 0,
                     !.pc = IF redisKey(call.agg, call.normalized) # Null
                            THEN "setObject" ELSE "return"]

\* the Aggregation is stored as generated, before normalize was applied
AfterSetObject_StoresGenerated(call) ==
    [call EXCEPT !.cacheWrites = <<[key |-> redisKey(call.agg, call.normalized).value,
                                    value |-> call.generated]>>,
                 !.pc = "return"]

\* setObject has resolved: the cache holds the Aggregation, which is returned
AfterSetObject(call) ==
    [call EXCEPT !.cacheWrites = <<[key |-> redisKey(call.agg, call.normalized).value,
                                    value |-> call.result]>>,
                 !.pc = "return"]

RECURSIVE ApplyWrites(_, _)
ApplyWrites(c, writes) ==
    IF writes = <<>> THEN c
    ELSE ApplyWrites(setObject(c, Head(writes).key, Head(writes).value), Tail(writes))

\* what a returned call leaves in the history
Returned(call) ==
    [op |-> "aggregate", agg |-> call.agg, normalized |-> call.normalized,
     after |-> call.after, before |-> call.before, generated |-> call.generated,
     result |-> call.result, cacheReads |-> call.cacheReads,
     generateCalls |-> call.generateCalls, normalizeCalls |-> call.normalizeCalls,
     storeReads |-> call.storeReads, cacheWrites |-> call.cacheWrites]

\* the call goes on to its next await, or returns
Continue(call) ==
    IF call.pc = "return"
    THEN /\ hist' = Append(hist, Returned(call))
         /\ pending' = [pending EXCEPT ![call.id] = NoCall]
    ELSE /\ hist' = hist
         /\ pending' = [pending EXCEPT ![call.id] = call]

\* aggregate(normalized) is called, whatever other calls are in flight
Aggregate(agg, normalized) ==
    /\ Started < MaxOps
    /\ pending' = [pending EXCEPT ![Started + 1] =
                        NewCall(Started + 1, agg, normalized, Len(hist))]
    /\ UNCHANGED <<cache, entityData, hist, scraperVars>>

AggregateGetObject(id) ==
    /\ pending[id].pc = "getObject"
    /\ Continue(AfterGetObject(pending[id], cache))
    /\ UNCHANGED <<cache, entityData, scraperVars>>

AggregateGenerateAggregate(id) ==
    /\ pending[id].pc = "generateAggregate"
    /\ Continue(AfterGenerateAggregate(pending[id], entityData))
    /\ UNCHANGED <<cache, entityData, scraperVars>>

AggregateSetObject(id) ==
    LET call == AfterSetObject(pending[id])
    IN  /\ pending[id].pc = "setObject"
        /\ cache' = ApplyWrites(cache, call.cacheWrites)
        /\ Continue(call)
        /\ UNCHANGED <<entityData, scraperVars>>

\* the store's data for an entity changes, also while calls are in flight
UpdateEntity(ref, v) ==
    /\ Started < MaxOps
    /\ entityData[ref] # v
    /\ entityData' = [entityData EXCEPT ![ref] = v]
    /\ hist' = Append(hist, [op |-> "update"])
    /\ UNCHANGED <<cache, pending, scraperVars>>

\* the cache backend drops an entry by its own policy
Evict(key) ==
    /\ Started < MaxOps
    /\ cache[key] # Null
    /\ cache' = [cache EXCEPT ![key] = Null]
    /\ hist' = Append(hist, [op |-> "evict"])
    /\ UNCHANGED <<entityData, pending, scraperVars>>

AggInit ==
    /\ cache = [k \in CacheKeys |-> Null]
    /\ entityData = [ref \in EntityRefs |-> 0]
    /\ hist = <<>>
    /\ pending = [id \in 1..MaxOps |-> NoCall]

AggNext ==
    \/ \E agg \in Aggregators, normalized \in BOOLEAN : Aggregate(agg, normalized)
    \/ \E id \in DOMAIN pending : AggregateGetObject(id)
    \/ \E id \in DOMAIN pending : AggregateGenerateAggregate(id)
    \/ \E id \in DOMAIN pending : AggregateSetObject(id)
    \/ \E ref \in EntityRefs, v \in 0..MaxRaw : UpdateEntity(ref, v)
    \/ \E key \in CacheKeys : Evict(key)

----------------------------------------------------------------------------
(* The specifications *)

ScraperInit ==
    /\ genreTable = <<>>
    /\ artistTable = <<>>
    /\ \E url \in {u \in [Artists -> Urls] : u["a1"] = "/artist/x"} :
            scrapers = [a \in Artists |-> NewArtistScraper(url[a])]
    /\ calls = 0

Init == ScraperInit /\ AggInit

Next ==
    \E a \in Artists :
        \/ ScrapeLookup(a)
        \/ RequestScrape(a)
        \/ RequestScrapeFails(a)
        \/ ExtractInfo(a)
        \/ ScrapeDependenciesTypeError(a)
        \/ GenreScrapeLookup(a)
        \/ GenreRequestScrape(a)
        \/ GenreExtractInfo(a)
        \/ GenreScrapeDependencies(a)
        \/ GenreSave(a)
        \/ GenreSaveFails(a)
        \/ GenreFinish(a)
        \/ ScrapeDependenciesNext(a)
        \/ ScrapeDependenciesRethrow(a)
        \/ ScrapeDependenciesEnd(a)
        \/ SaveToDBGetEntity(a)
        \/ SaveToDB(a)
        \/ SaveToDBFails(a)
        \/ ScrapeFinish(a)

Spec == Init /\ [][Next]_vars

AggSpec == Init /\ [][AggNext]_vars

\* scrape() runs of different scrapers in flight at once, interleaving at their
\* awaits; every fetch and every store write succeeds
ConcNext ==
    \E a \in Artists :
        \/ ScrapeLookupConcurrent(a)
        \/ RequestScrapeWithGenres(a)
        \/ ExtractInfo(a)
        \/ GenreScrapeLookup(a)
        \/ GenreRequestScrape(a)
        \/ GenreExtractInfo(a)
        \/ GenreScrapeDependencies(a)
        \/ GenreSave(a)
        \/ GenreFinish(a)
        \/ ScrapeDependenciesNext(a)
        \/ ScrapeDependenciesEnd(a)
        \/ SaveToDBGetEntity(a)
        \/ SaveToDB(a)
        \/ ScrapeFinish(a)

ConcSpec == Init /\ [][ConcNext]_vars

----------------------------------------------------------------------------
(* Properties of the scraper lifecycle *)

ArtistRowsFor(url) == {i \in DOMAIN artistTable : artistTable[i].urlRYM = url}
GenreRowsFor(name) == {i \in DOMAIN genreTable : genreTable[i].name = name}

HasChildren(s) == s.genreScrapersRYM # Undefined
ChildIndices(s) == IF HasChildren(s) THEN DOMAIN Children(s) ELSE {}

\* this step is the driver calling scrape() on root scraper a
RootCalled(a) == calls' = calls + 1 /\ scrapers'[a] # scrapers[a]

\* this step is the dependency loop of a calling scrape() on its child k
ChildCalled(a, k) ==
    /\ scrapers[a].pc = "deps" /\ HasChildren(scrapers[a]) /\ scrapers[a].dep = k
    /\ k \in ChildIndices(scrapers[a])
    /\ Children(scrapers[a])[k].pc = "idle"
    /\ HasChildren(scrapers'[a]) /\ k \in ChildIndices(scrapers'[a])
    /\ Children(scrapers'[a])[k].pc # "idle"

\* every scraper with this key and a databaseID holds the same databaseID
ArtistIdsAgree(url, id) ==
    \A b \in Artists :
        scrapers'[b].url = url /\ scrapers'[b].databaseID # Undefined
            => scrapers'[b].databaseID = Some(id)

GenreIdsAgree(name, id) ==
    \A b \in Artists : \A j \in ChildIndices(scrapers'[b]) :
        LET g == Children(scrapers'[b])[j]
        IN  g.name = name /\ g.databaseID # Undefined => g.databaseID = Some(id)

\* C1: a scrape() for a key whose entity is already stored creates no row, ends
\* Complete with dataReadFromDB = TRUE, and its databaseID is the stored row's id,
\* the one every earlier scrape() of that key produced.
C1_Idempotence ==
    [][/\ \A a \in Artists :
            RootCalled(a) /\ ArtistRowsFor(scrapers[a].url) # {} =>
                /\ artistTable' = artistTable /\ genreTable' = genreTable
                /\ Cardinality(ArtistRowsFor(scrapers[a].url)) = 1
                /\ scrapers'[a].dataReadFromDB
                /\ scrapers'[a].state = Complete /\ scrapers'[a].pc = "idle"
                /\ \E i \in ArtistRowsFor(scrapers[a].url) :
                        /\ scrapers'[a].databaseID = Some(artistTable[i].id)
                        /\ ArtistIdsAgree(scrapers[a].url, artistTable[i].id)
       /\ \A a \in Artists : \A k \in ChildIndices(scrapers[a]) :
            ChildCalled(a, k) /\ GenreRowsFor(Children(scrapers[a])[k].name) # {} =>
                LET name == Children(scrapers[a])[k].name
                    g == Children(scrapers'[a])[k]
                IN  /\ artistTable' = artistTable /\ genreTable' = genreTable
                    /\ Cardinality(GenreRowsFor(name)) = 1
                    /\ g.dataReadFromDB /\ g.state = Complete
                    /\ \E i \in GenreRowsFor(name) :
                            /\ g.databaseID = Some(genreTable[i].id)
                            /\ GenreIdsAgree(name, genreTable[i].id)
      ]_vars

\* a second scrape() of a stored artist has ended, and so has one of a stored genre
C1_Witness ==
    /\ \E a \in Artists :
        /\ scrapers[a].dataReadFromDB /\ scrapers[a].state = Complete
        /\ scrapers[a].scrapedHtmlElement # Undefined
        /\ Len(artistTable) = 1
    /\ \E a \in Artists : \E k \in ChildIndices(scrapers[a]) :
        /\ Children(scrapers[a])[k].dataReadFromDB
        /\ Children(scrapers[a])[k].databaseID = Some(1)

\* this step keeps child k of a as the same scraper object
SameChild(a, k) ==
    /\ scrapers[a].pc # "extract"
    /\ k \in ChildIndices(scrapers[a]) /\ k \in ChildIndices(scrapers'[a])

\* C3 as claimed: no scraper's lifecycle state ever decreases, over failed runs and
\* repeated scrape() calls too, and scrape() on a Complete instance changes nothing.
C3_NeverReentersEarlierState ==
    [][\A a \in Artists :
        /\ scrapers'[a].state >= scrapers[a].state
        /\ RootCalled(a) /\ scrapers[a].state = Complete => scrapers'[a] = scrapers[a]
        /\ \A k \in ChildIndices(scrapers[a]) :
                SameChild(a, k) =>
                    Children(scrapers'[a])[k].state >= Children(scrapers[a])[k].state
      ]_vars

\* C3 (amended): inside one scrape() invocation the lifecycle state never decreases;
\* a new invocation starts again at the lookup, so after a failed run the scraper
\* re-enters Resolved; on a Complete instance the lookup hits and the scraper stays
\* Complete without fetch, extraction or store write, but dataReadFromDB becomes
\* TRUE and one diagnostic record is appended.
C3_MonotoneWithinInvocation ==
    [][\A a \in Artists :
        /\ ~RootCalled(a) => scrapers'[a].state >= scrapers[a].state
        /\ RootCalled(a) => scrapers'[a].state \in {Resolved, Complete}
        /\ RootCalled(a) /\ scrapers[a].state = Complete =>
                /\ scrapers'[a] = [scrapers[a] EXCEPT
                        !.dataReadFromDB = TRUE,
                        !.results = Append(@, FoundRecord(scrapers[a].url))]
                /\ artistTable' = artistTable /\ genreTable' = genreTable
        /\ \A k \in ChildIndices(scrapers[a]) :
                SameChild(a, k) =>
                    LET g == Children(scrapers[a])[k]
                        h == Children(scrapers'[a])[k]
                    IN  /\ ~ChildCalled(a, k) => h.state >= g.state
                        /\ ChildCalled(a, k) => h.state \in {Resolved, Complete}
                        /\ ChildCalled(a, k) /\ g.state = Complete =>
                                h.state = Complete /\ genreTable' = genreTable
      ]_vars

\* a scraper that failed after extraction was called again and is back at Resolved
C3_Witness ==
    \E a \in Artists :
        /\ scrapers[a].state = Resolved /\ scrapers[a].pc = "fetch"
        /\ scrapers[a].scrapedHtmlElement # Undefined
        /\ HasChildren(scrapers[a])

\* content blocks of a page that follow a header with this text (1-based)
BlocksUnder(page, header) ==
    {i \in 2..Len(page.infoBlocks) :
        /\ page.infoBlocks[i].className = "info_content"
        /\ page.infoBlocks[i - 1].innerHTML = header}

Max(S) == CHOOSE x \in S : \A y \in S : x >= y

\* the scraper stands right after extractInfo() of the page it holds
JustExtracted(s) == s.state = Extracted /\ s.pc = "deps" /\ s.dep = 1 /\ ~s.failed

\* C4 as claimed: after extraction of a page that lacks an optional field, the
\* attribute of that field holds its default: 0 for the numeric fields, no child
\* scrapers for the Genres block.
C4_DegradationDefault ==
    \A a \in Artists :
        LET s == scrapers[a]
            page == s.scrapedHtmlElement
        IN  JustExtracted(s) /\ (\A k \in ChildIndices(s) : Children(s)[k].pc = "idle") =>
                /\ BlocksUnder(page, "Members") = {} => s.memberCount = Some(0)
                /\ BlocksUnder(page, "Genres") = {} => s.genreScrapersRYM = Some(<<>>)
                /\ page.disco = Null => s.discographyCountRYM = Some(0)
                /\ page.lists = Null => s.listCountRYM = Some(0)
                /\ page.shows = Null => s.showCountRYM = Some(0)

\* C5 as claimed: with the page fetched and every store operation successful, no
\* error leaves scrape(), whatever optional field the page lacks.
C5_OnlyFetchErrorPropagates ==
    \A a \in Artists :
        LET s == scrapers[a]
        IN  s.failed /\ s.error \notin {"FetchError", "PersistenceError"} =>
                s.scrapedHtmlElement.name = Null

\* C6: extraction makes the child scrapers from the page's Genres block, one per
\* link and in link order, and runs none of them; afterwards only the child the
\* loop stands at is running, and a child's scrape() has started only when every
\* child before it is Complete.
C6_SequentialInDiscoveryOrder ==
    /\ [][\A a \in Artists :
            LET page == scrapers[a].scrapedHtmlElement
                t == scrapers'[a]
            IN  /\ scrapers[a].pc = "extract" /\ t.pc = "deps"
                /\ BlocksUnder(page, "Genres") # {}
                =>  /\ HasChildren(t)
                    /\ [k \in ChildIndices(t) |-> Children(t)[k].name]
                            = page.infoBlocks[Max(BlocksUnder(page, "Genres"))].links
                    /\ \A k \in ChildIndices(t) :
                            Children(t)[k].state = Created /\ Children(t)[k].pc = "idle"
                    /\ genreTable' = genreTable
         ]_vars
    /\ [](\A a \in Artists :
            LET s == scrapers[a]
            IN  /\ \A k \in ChildIndices(s) :
                        Children(s)[k].pc # "idle" => s.pc = "deps" /\ s.dep = k
                /\ \A j, k \in ChildIndices(s) :
                        j < k /\ Children(s)[k].state > Created =>
                            Children(s)[j].state = Complete)

\* the second of the children Rock, Jazz is being scraped after the first completed
C6_Witness ==
    \E a \in Artists :
        /\ HasChildren(scrapers[a]) /\ Len(Children(scrapers[a])) = 2
        /\ Children(scrapers[a])[1].name = "Rock" /\ Children(scrapers[a])[1].state = Complete
        /\ Children(scrapers[a])[2].name = "Jazz" /\ Children(scrapers[a])[2].state = Resolved

\* C7: when a child's scrape() has thrown, the parent's next step is the end of
\* its own scrape() with the child's error; and a parent whose scrape() ended so
\* has run no later child, has not reached saveToDB, has written no row and has
\* no databaseID.
C7_ChildFailureAbortsParent ==
    /\ [][\A a \in Artists : \A k \in ChildIndices(scrapers[a]) :
            Children(scrapers[a])[k].pc = "thrown" /\ scrapers'[a] # scrapers[a] =>
                /\ scrapers'[a].failed /\ scrapers'[a].pc = "idle"
                /\ scrapers'[a].error = Children(scrapers[a])[k].error
                /\ scrapers'[a].state = Extracted
                /\ artistTable' = artistTable /\ genreTable' = genreTable
         ]_vars
    /\ [](\A a \in Artists : \A k \in ChildIndices(scrapers[a]) :
            LET s == scrapers[a]
            IN  s.failed /\ s.state = Extracted /\ Children(s)[k].failed =>
                    /\ s.pc = "idle"
                    /\ s.databaseID = Undefined
                    /\ \A j \in ChildIndices(s) : j > k => Children(s)[j].state = Created
                    /\ \A i \in ArtistRowsFor(s.url) :
                            \E b \in Artists \ {a} :
                                /\ scrapers[b].url = s.url
                                /\ scrapers[b].databaseID = Some(artistTable[i].id))

\* the first of two children failed and the error has left the parent's scrape()
C7_Witness ==
    \E a \in Artists :
        /\ scrapers[a].failed /\ scrapers[a].pc = "idle" /\ scrapers[a].state = Extracted
        /\ HasChildren(scrapers[a]) /\ Len(Children(scrapers[a])) = 2
        /\ Children(scrapers[a])[1].failed
        /\ Children(scrapers[a])[2].state = Created

RECURSIVE ChildResults(_, _)
ChildResults(children, k) ==
    IF k > Len(children) THEN <<>> ELSE children[k].results \o ChildResults(children, k + 1)

IsSuffix(t, r) == Len(t) <= Len(r) /\ SubSeq(r, Len(r) - Len(t) + 1, Len(r)) = t

\* C8: when the dependency loop has ended, the parent's results end with the
\* diagnostic records of its children, in child order, behind the records the
\* parent held before.
C8_ChildDiagnosticsMerged ==
    \A a \in Artists :
        scrapers[a].state = DependenciesResolved =>
            IsSuffix(ChildResults(Children(scrapers[a]), 1), scrapers[a].results)

\* the loop has ended over two children that both left a record, of different
\* keys, and the parent's results are the first child's and then the second's
C8_Witness ==
    \E a \in Artists :
        LET s == scrapers[a]
        IN  /\ s.state = DependenciesResolved /\ s.pc = "save"
            /\ HasChildren(s) /\ Len(Children(s)) = 2
            /\ Children(s)[1].results # <<>> /\ Children(s)[2].results # <<>>
            /\ Children(s)[1].results # Children(s)[2].results
            /\ s.results = Children(s)[1].results \o Children(s)[2].results

\* the scraper holds the id of the first stored row of its natural key
HoldsRowId(databaseID, rows, table) ==
    rows # {} /\ databaseID = Some(table[Min(rows)].id)

\* C11: for every scraper, root or child, databaseID is set exactly when its state
\* is Persisted or Complete; a set databaseID is the id of the stored row of the
\* scraper's natural key, and so is the databaseID of a scraper that ended by lookup.
C11_DatabaseIdInvariant ==
    /\ \A a \in Artists :
            LET s == scrapers[a]
            IN  /\ (s.databaseID # Undefined) <=> (s.state \in {Persisted, Complete})
                /\ s.databaseID # Undefined \/ s.dataReadFromDB =>
                        HoldsRowId(s.databaseID, ArtistRowsFor(s.url), artistTable)
    /\ \A a \in Artists : \A k \in ChildIndices(scrapers[a]) :
            LET g == Children(scrapers[a])[k]
            IN  /\ (g.databaseID # Undefined) <=> (g.state \in {Persisted, Complete})
                /\ g.databaseID # Undefined \/ g.dataReadFromDB =>
                        HoldsRowId(g.databaseID, GenreRowsFor(g.name), genreTable)

\* a root has just persisted its entity, one of its children ended by lookup with
\* the stored id and another child by its own save
C11_Witness ==
    \E a \in Artists : \E j, k \in ChildIndices(scrapers[a]) :
        /\ scrapers[a].state = Persisted /\ ~scrapers[a].dataReadFromDB
        /\ scrapers[a].databaseID = Some(1)
        /\ Children(scrapers[a])[k].dataReadFromDB
        /\ Children(scrapers[a])[k].databaseID = Some(1)
        /\ ~Children(scrapers[a])[j].dataReadFromDB
        /\ Children(scrapers[a])[j].databaseID = Some(1)

\* the stored row a scraper's databaseID names
ArtistRowOf(s) == artistTable[CHOOSE i \in DOMAIN artistTable : artistTable[i].id = s.databaseID.value]

\* C15: when a parent is about to persist or has just persisted, every one of its
\* dependency scrapers is Complete; the row it saved has one relation per child,
\* in the children's discovery order, each the stored row of that child's natural
\* key; and no stored artist row ever holds an absent relation.
C15_ParentAfterChildren ==
    /\ \A a \in Artists :
            LET s == scrapers[a]
            IN  s.pc \in {"save", "finish"} =>
                    /\ HasChildren(s)
                    /\ \A k \in ChildIndices(s) :
                            Children(s)[k].state = Complete /\ Children(s)[k].pc = "idle"
    /\ \A a \in Artists :
            LET s == scrapers[a]
            IN  s.pc = "finish" =>
                    /\ s.state = Persisted
                    /\ Len(ArtistRowOf(s).genres) = Len(Children(s))
                    /\ \A k \in ChildIndices(s) :
                            /\ ArtistRowOf(s).genres[k] # Undefined
                            /\ ArtistRowOf(s).genres[k].name = Children(s)[k].name
                            /\ Some(ArtistRowOf(s).genres[k].id) = Children(s)[k].databaseID
    /\ \A i \in DOMAIN artistTable : \A k \in DOMAIN artistTable[i].genres :
            /\ artistTable[i].genres[k] # Undefined
            /\ \E j \in DOMAIN genreTable : genreTable[j] = artistTable[i].genres[k]

\* a parent has just persisted with two different genres, the first one stored
\* after the second, so that discovery order is not the store's order
C15_Witness ==
    \E a \in Artists :
        /\ scrapers[a].pc = "finish"
        /\ Len(Children(scrapers[a])) = 2
        /\ ArtistRowOf(scrapers[a]).genres[1].id = 2
        /\ ArtistRowOf(scrapers[a]).genres[2].id = 1

\* C16: with scrape() runs executed one at a time, the store never holds two
\* artist rows with the same urlRYM nor two genre rows with the same name, and
\* the generated ids are distinct.
C16_OneRowPerNaturalKey ==
    /\ \A i, j \in DOMAIN artistTable :
            artistTable[i].urlRYM = artistTable[j].urlRYM \/ artistTable[i].id = artistTable[j].id
                => i = j
    /\ \A i, j \in DOMAIN genreTable :
            genreTable[i].name = genreTable[j].name \/ genreTable[i].id = genreTable[j].id
                => i = j

\* two parents were stored that both reference the one Rock row, one of them
\* listing it twice
C16_Witness ==
    /\ Len(artistTable) = 2
    /\ \E r \in DOMAIN genreTable :
        /\ genreTable[r].name = "Rock"
        /\ \A i \in DOMAIN artistTable : \E k \in DOMAIN artistTable[i].genres :
                artistTable[i].genres[k] = genreTable[r]
        /\ \E i \in DOMAIN artistTable :
                artistTable[i].genres = <<genreTable[r], genreTable[r]>>

\* every scrape() call so far was made on a, and every one before the latest
\* failed: a stored row would have made the latest call end by lookup
Retrying(a) ==
    /\ calls >= 2
    /\ \A b \in Artists \ {a} : scrapers[b].state = Created
    /\ ~scrapers[a].dataReadFromDB

\* the errors of a run whose fetch, extraction or store write failed
RunFailures == {"FetchError", "ExtractionError", "PersistenceError"}

\* C17: a scrape() called again on a scraper whose last run failed starts with the
\* lookup, before any fetch or store write; it leaves at most one row for the
\* scraper's key and for the key of each of its dependencies; and it ends either
\* Complete with the entity stored once, or with a failed fetch, extraction or
\* store write.
C17_RetrySafety ==
    /\ [][\A a \in Artists :
            RootCalled(a) /\ scrapers[a].failed =>
                /\ genreTable' = genreTable /\ artistTable' = artistTable
                /\ scrapers'[a].scrapedHtmlElement = scrapers[a].scrapedHtmlElement
                /\ \/ scrapers'[a].pc = "fetch" /\ scrapers'[a].state = Resolved
                   \/ scrapers'[a].pc = "idle" /\ scrapers'[a].state = Complete
         ]_vars
    /\ [](\A a \in Artists :
            Retrying(a) =>
                /\ Cardinality(ArtistRowsFor(scrapers[a].url)) <= 1
                /\ \A k \in ChildIndices(scrapers[a]) :
                        Cardinality(GenreRowsFor(Children(scrapers[a])[k].name)) <= 1
                /\ scrapers[a].pc = "idle" =>
                        \/ /\ scrapers[a].state = Complete
                           /\ Cardinality(ArtistRowsFor(scrapers[a].url)) = 1
                        \/ /\ scrapers[a].failed
                           /\ scrapers[a].error \in RunFailures)

\* every row of the table is still there, unchanged, after the step
RowsKept(table, tableAfter) ==
    \A i \in DOMAIN table : i \in DOMAIN tableAfter /\ tableAfter[i] = table[i]

\* C18: no step changes or removes a stored row, scalar fields and relations
\* alike; and a scrape() whose lookup finds its entity is over with that step: it
\* fetches no page, runs no dependency and writes nothing to the store.
C18_PersistedEntityFrame ==
    [][/\ RowsKept(artistTable, artistTable') /\ RowsKept(genreTable, genreTable')
       /\ \A a \in Artists :
            RootCalled(a) /\ ArtistRowsFor(scrapers[a].url) # {} =>
                /\ artistTable' = artistTable /\ genreTable' = genreTable
                /\ scrapers'[a].scrapedHtmlElement = scrapers[a].scrapedHtmlElement
                /\ scrapers'[a].genreScrapersRYM = scrapers[a].genreScrapersRYM
                /\ scrapers'[a].pc = "idle"
       /\ \A a \in Artists : \A k \in ChildIndices(scrapers[a]) :
            ChildCalled(a, k) /\ GenreRowsFor(Children(scrapers[a])[k].name) # {} =>
                /\ artistTable' = artistTable /\ genreTable' = genreTable
                /\ Children(scrapers'[a])[k].pc = "done"
      ]_vars

\* a scraper that never fetched a page ended by lookup on an artist another
\* scraper stored with its relations, and the stored row is as it was saved
C18_Witness ==
    \E a, b \in Artists :
        /\ a # b /\ scrapers[a].url = scrapers[b].url
        /\ scrapers[a].dataReadFromDB /\ scrapers[a].state = Complete
        /\ scrapers[a].scrapedHtmlElement = Undefined
        /\ ~scrapers[b].dataReadFromDB /\ scrapers[b].state = Complete
        /\ Len(artistTable) = 1 /\ Len(artistTable[1].genres) = 2
        /\ \A k \in 1..2 :
                artistTable[1].genres[k] = GenreGetEntity(genreTable, Children(scrapers[b])[k])
        /\ artistTable[1] =
              [NewArtistEntity(scrapers[b], artistTable[1].genres) EXCEPT !.id = 1]

\* the child scrapers of this name whose lookup missed and whose save has returned
GenreSavers(name) ==
    {c \in Artists \X (1..MaxGenres) :
        /\ c[2] \in ChildIndices(scrapers[c[1]])
        /\ Children(scrapers[c[1]])[c[2]].name = name
        /\ Children(scrapers[c[1]])[c[2]].databaseID # Undefined
        /\ ~Children(scrapers[c[1]])[c[2]].dataReadFromDB}

\* the root scrapers of this url that fetched their page and whose save has returned
ArtistSavers(url) ==
    {a \in Artists :
        /\ scrapers[a].url = url
        /\ scrapers[a].scrapedHtmlElement # Undefined
        /\ scrapers[a].state \in {Persisted, Complete}}

\* C20: with scrape() runs interleaved, the lookup and the save of a scraper are
\* not one atomic step: every scraper whose lookup missed adds a row of its own
\* when it saves, whatever was stored since, so a natural key has as many rows as
\* scrapers that saved it, each of them holding a different id.
C20_EveryMissedLookupAddsARow ==
    /\ \A name \in GenreNames :
            /\ Cardinality(GenreRowsFor(name)) = Cardinality(GenreSavers(name))
            /\ \A c, d \in GenreSavers(name) :
                    c # d => Children(scrapers[c[1]])[c[2]].databaseID
                                # Children(scrapers[d[1]])[d[2]].databaseID
    /\ \A url \in Urls :
            Cardinality(ArtistRowsFor(url)) = Cardinality(ArtistSavers(url))

\* the children of two parents looked the same genre up before either saved it:
\* the store holds two rows of that name, and two artist rows of one url as well
C20_Witness ==
    /\ \E i, j \in DOMAIN genreTable :
            /\ i # j /\ genreTable[i].name = genreTable[j].name
            /\ Cardinality(GenreSavers(genreTable[i].name)) = 2
    /\ \E i, j \in DOMAIN artistTable :
            i # j /\ artistTable[i].urlRYM = artistTable[j].urlRYM

----------------------------------------------------------------------------
(* Properties of the Aggregator *)

IsCall(i) == i \in DOMAIN hist /\ hist[i].op = "aggregate"

\* calls i and i + 1 are aggregate(true) on the same Aggregator, which has an
\* entity, the second called after the first returned and nothing else in between
TwiceNormalized(i) ==
    /\ IsCall(i) /\ IsCall(i + 1)
    /\ hist[i].agg = hist[i + 1].agg /\ hist[i].agg.entity # Null
    /\ hist[i].normalized /\ hist[i + 1].normalized
    /\ hist[i + 1].after = i

\* C2: aggregate(true) directly followed by aggregate(true) on an Aggregator over
\* an entity returns the same Aggregation, and the second call makes no call of
\* generateAggregate.
C2_CacheCorrectness ==
    \A i \in DOMAIN hist :
        TwiceNormalized(i) =>
            /\ hist[i + 1].result = hist[i].result
            /\ hist[i + 1].generateCalls = 0

\* two such calls were made, the first of them computing the Aggregation
C2_Witness ==
    \E i \in DOMAIN hist :
        /\ TwiceNormalized(i)
        /\ hist[i].generateCalls = 1
        /\ hist[i].result # template(hist[i].agg, 0)

\* C9: aggregate() of an Aggregator whose entity is absent reads no cache entry,
\* writes none, and computes its result through generateAggregate every time.
C9_NoEntityNoCache ==
    \A i \in DOMAIN hist :
        IsCall(i) /\ hist[i].agg.entity = Null =>
            /\ hist[i].cacheReads = 0
            /\ hist[i].cacheWrites = <<>>
            /\ hist[i].generateCalls = 1
            /\ \A j \in 1..(i - 1) :
                    IsCall(j) /\ hist[j].agg = hist[i].agg => hist[j].generateCalls = 1

\* an Aggregator without entity aggregated twice in a row, with the same flag
C9_Witness ==
    \E i \in DOMAIN hist :
        /\ IsCall(i) /\ IsCall(i + 1)
        /\ hist[i].agg.entity = Null /\ hist[i + 1].agg = hist[i].agg
        /\ hist[i + 1].normalized = hist[i].normalized
        /\ \A k \in CacheKeys : cache[k] = Null

\* C10: an aggregate() that finds its key cached returns the cached Aggregation as
\* it is, calls neither generateAggregate nor normalize, reads no store data and
\* writes no cache entry.
C10_CacheHitFrame ==
    \A i \in DOMAIN hist :
        IsCall(i) /\ hist[i].before # Null =>
            /\ hist[i].result = hist[i].before
            /\ hist[i].generateCalls = 0
            /\ hist[i].normalizeCalls = 0
            /\ hist[i].storeReads = 0
            /\ hist[i].cacheWrites = <<>>

\* the last call found the normalized Aggregation an earlier call had stored
C10_Witness ==
    \E i \in DOMAIN hist :
        /\ IsCall(i) /\ hist[i].before # Null /\ i = Len(hist)
        /\ hist[i].normalized /\ hist[i].cacheReads = 1
        /\ hist[i].result # template(hist[i].agg, 0)
        /\ \E j \in 1..(i - 1) :
                IsCall(j) /\ hist[j].cacheWrites # <<>>
                          /\ hist[j].cacheWrites[1].value = hist[i].before

\* the property names of an Aggregation, in the order the object holds them
KeysOf(aggregation) == [i \in DOMAIN aggregation |-> aggregation[i].key]

\* C12: fields() is the list of the template's keys in the template's order,
\* whatever default value the template is filled with, and the Aggregation an
\* aggregate() call has just returned, computed or cached, normalized or raw, has
\* exactly these keys in this order.
C12_FieldShape ==
    hist # <<>> /\ IsCall(Len(hist)) =>
        LET r == hist[Len(hist)]
            f == fields(r.agg)
        IN  /\ \A v \in {0, 1} : f = KeysOf(template(r.agg, v))
            /\ Len(f) = Cardinality({f[k] : k \in DOMAIN f})
            /\ KeysOf(r.result) = f

\* one type was aggregated raw and normalized with different values, and the
\* other type has other fields
C12_Witness ==
    \E i, j \in DOMAIN hist :
        /\ IsCall(i) /\ IsCall(j) /\ j = Len(hist)
        /\ hist[i].agg.aggregationType = hist[j].agg.aggregationType
        /\ ~hist[i].normalized /\ hist[j].normalized
        /\ stripLabels(hist[i].result) # stripLabels(hist[j].result)
        /\ \E agg \in Aggregators : fields(agg) # fields(hist[i].agg)

\* the cache key of call i
KeyOfCall(i) == redisKey(hist[i].agg, hist[i].normalized)

\* the aggregation type, entity id and normalized flag of call i
TripleOfCall(i) == <<hist[i].agg.aggregationType, hist[i].agg.entity.id, hist[i].normalized>>

\* C13: two aggregate() calls over entities have the same cache key exactly when
\* they agree in aggregation type, entity id and normalized flag; whatever call
\* wrote under the key of another has its type, entity id and flag; and an
\* Aggregation returned from the cache was stored by an earlier call with the
\* same type, the same entity id and the same flag.
C13_KeySeparatesTriples ==
    \A i, j \in DOMAIN hist :
        IsCall(i) /\ IsCall(j) /\ KeyOfCall(i) # Null /\ KeyOfCall(j) # Null =>
            /\ (KeyOfCall(i) = KeyOfCall(j)) <=> (TripleOfCall(i) = TripleOfCall(j))
            /\ hist[i].cacheWrites # <<>> /\ hist[i].cacheWrites[1].key = KeyOfCall(j).value
                    => TripleOfCall(i) = TripleOfCall(j)
            /\ hist[j].before # Null =>
                    \E k \in 1..(j - 1) :
                        /\ IsCall(k) /\ hist[k].cacheWrites # <<>>
                        /\ hist[k].cacheWrites[1].value = hist[j].before
                        /\ TripleOfCall(k) = TripleOfCall(j)

\* aggregate(true) stored its Aggregation, then aggregate(false) of the same
\* Aggregator found nothing under its own key and computed: the cache holds the
\* two Aggregations, which differ, under two keys
C13_Witness ==
    /\ Len(hist) = 2 /\ IsCall(1) /\ IsCall(2)
    /\ hist[1].agg = hist[2].agg /\ hist[1].agg.entity # Null
    /\ hist[1].normalized /\ ~hist[2].normalized
    /\ hist[1].cacheWrites # <<>> /\ hist[2].after = 1
    /\ hist[2].before = Null /\ hist[2].generateCalls = 1
    /\ cache[KeyOfCall(1).value] = hist[1].result
    /\ cache[KeyOfCall(2).value] = hist[2].result
    /\ hist[1].result # hist[2].result

\* the last operation was an aggregate() call that found nothing in the cache
LastIsMiss ==
    /\ hist # <<>> /\ IsCall(Len(hist))
    /\ hist[Len(hist)].generateCalls = 1

\* C14: an aggregate() call that finds nothing cached returns
\* normalize(generateAggregate(true)) for a normalized request and
\* generateAggregate(false) as it is, with no call of normalize, for a raw one;
\* with a key, its one cache write puts exactly the value returned under that
\* key, where the cache holds it when the call returns; without a key it writes
\* nothing.
C14_MissComputesAndStores ==
    LastIsMiss =>
        LET r == hist[Len(hist)]
            key == redisKey(r.agg, r.normalized)
        IN  /\ \E v \in 0..MaxRaw :
                    r.generated = generateAggregate(r.agg,
                        [ref \in EntityRefs |-> v], r.normalized)
            /\ r.normalized =>
                    /\ r.result = normalize(r.agg, r.generated)
                    /\ r.normalizeCalls = 1
            /\ ~r.normalized =>
                    /\ r.result = r.generated
                    /\ r.normalizeCalls = 0
            /\ key # Null =>
                    /\ r.cacheWrites = <<[key |-> key.value, value |-> r.result]>>
                    /\ cache[key.value] = r.result
            /\ key = Null => r.cacheWrites = <<>>

\* the last call was a normalized miss with a key: the cache holds what it
\* returned, which is not what generateAggregate gave
C14_Witness ==
    /\ LastIsMiss
    /\ LET r == hist[Len(hist)]
       IN  /\ r.normalized /\ r.before = Null
           /\ redisKey(r.agg, TRUE) # Null
           /\ cache[redisKey(r.agg, TRUE).value] = r.result
           /\ r.result # r.generated
           /\ r.generated # generateAggregate(r.agg, [ref \in EntityRefs |-> 0], TRUE)

\* the value an Aggregation holds under a field name
ValueOf(aggregation, field) ==
    aggregation[CHOOSE i \in DOMAIN aggregation : aggregation[i].key = field].val

\* C19: for the Aggregation an aggregate() call has just returned, stripLabels
\* gives one value per field of fields(), the i-th being the value of the i-th
\* field, and csvHeaders gives one header per field of fields(), the i-th having
\* the i-th field name as its id and as its title.
C19_LabelsAndHeaders ==
    hist # <<>> /\ IsCall(Len(hist)) =>
        LET r == hist[Len(hist)]
            f == fields(r.agg)
            values == stripLabels(r.result)
            headers == csvHeaders(r.agg)
        IN  /\ Len(values) = Len(f)
            /\ \A i \in DOMAIN f : values[i] = ValueOf(r.result, f[i])
            /\ Len(headers) = Len(f)
            /\ \A i \in DOMAIN f : headers[i].id = f[i] /\ headers[i].title = f[i]

\* an Aggregation of the longer shape was returned whose neighbouring fields hold
\* different values, one of them 0
C19_Witness ==
    /\ hist # <<>> /\ IsCall(Len(hist))
    /\ LET r == hist[Len(hist)]
       IN  /\ Len(fields(r.agg)) = Len(ArtistsFields)
           /\ stripLabels(r.result)[1] = 0
           /\ stripLabels(r.result)[2] > 0
           /\ csvHeaders(r.agg)[Len(ArtistsFields)].title = "lowestPopularity"

====
